---- MODULE Spec2Model ----
(***************************************************************************)
(* A model of the street-view crawler (crawler/main.py): PointsInSquare,   *)
(* PanoIdOf, Panos, Pano, PanoFolderSimple, PanoFolderGlued and Catalogue. *)
(*                                                                         *)
(* Coordinates are planar and measured in half-metres, so that the         *)
(* side / 2 of upper_left_corner is exact; the centre is the origin.       *)
(* The metadata service and the imagery service answer                     *)
(* nondeterministically at every request.                                  *)
(***************************************************************************)
EXTENDS Integers, Sequences, FiniteSets, TLC

VARIABLES
    pc,           \* position of the run
    side,         \* PointsInSquare._side
    step,         \* PointsInSquare._step
    fov,          \* Catalogue._fov
    folder,       \* Catalogue._folder: "Simple" or "Glued"
    dup_on_seams, \* PanoFolderGlued._dup_on_seams
    gi, gj,       \* the loop variables i and j of the generator PointsInSquare.iter
    yielded,      \* the points the generator has yielded so far
    lookups,      \* the metadata requests made and their answers
    ids,          \* the dict of Panos.as_list, in insertion order
    panos_list,   \* the list Panos.as_list returned
    n,            \* the index i of the loop over panos_list in Catalogue.add
    rqs,          \* the image requests Catalogue.download has not issued yet
    images,       \* the list images of Catalogue.download
    fetched,      \* the image requests issued and whether each succeeded
    handed,       \* per panorama processed, the list handed to PanoFolder.save
    indexExists,  \* whether index.csv exists in the target directory
    indexDisk,    \* the rows of index.csv that are on disk
    buf,          \* the rows pending in the text layer of the open file object
    wbuf,         \* the rows in the buffer of its binary layer, not on disk yet
    dirs,         \* the directories that exist: <<>> is the target, <<id>> a panorama's
    files,        \* the image files that exist
    err           \* the exception that ended the run, "" when none

vars == <<pc, side, step, fov, folder, dup_on_seams, gi, gj, yielded, lookups, ids,
          panos_list, n, rqs, images, fetched, handed, indexExists, indexDisk, buf,
          wbuf, dirs, files, err>>

cfgVars == <<side, step, fov, folder, dup_on_seams>>
genVars == <<gi, gj, yielded>>
listVars == <<lookups, ids, panos_list>>
dlVars == <<n, rqs, images, fetched, handed>>
fsVars == <<indexExists, indexDisk, dirs, files>>

-----------------------------------------------------------------------------
(* Bounds *)

\* The sides of the square the sampler specification draws from: 0..MaxSide.
MaxSide == 100

-----------------------------------------------------------------------------
(* Program constants *)

STRIDE == 30
FULL_TURN == 360
IMG_WIDTH == 600
IMG_HEIGHT == 400

\* open(path, "w") with default buffering: the text layer hands its pending
\* bytes down in chunks of CHUNK_SIZE, the binary layer buffers BUFFER_SIZE
\* bytes (the block size of the file system).
CHUNK_SIZE == 8192
BUFFER_SIZE == 4096

\* The inputs of the pipeline specification; its step is the default of --step.
Sides == {0, 30}
Steps == {10, 20}
Fovs == {120, 200, 360}
PanoIds == {"ab", "b"}
Statuses == {"OK", "ZERO_RESULTS", "OVER_QUERY_LIMIT"}

-----------------------------------------------------------------------------
(* geopy: Point and distance(meters).destination(point, bearing) *)

Point(lat, lng) == [latitude |-> lat, longitude |-> lng]

Centre == Point(0, 0)

\* Half-metres of a whole number of metres.
Meters(m) == 2 * m

\* distance(...).destination(point=p, bearing=b), d in half-metres.
Destination(p, b, d) ==
    CASE b = 0   -> Point(p.latitude + d, p.longitude)
      [] b = 90  -> Point(p.latitude, p.longitude + d)
      [] b = 180 -> Point(p.latitude - d, p.longitude)
      [] b = 270 -> Point(p.latitude, p.longitude - d)

\* The capture locations the metadata service may report.
CanonLocs == {Point(1, 1), Point(-1, 3)}

-----------------------------------------------------------------------------
(* range(start, stop, stride) of Python, for a positive stride *)

RangeLen(start, stop, stride) ==
    IF stop <= start THEN 0 ELSE ((stop - start - 1) \div stride) + 1

Range(start, stop, stride) ==
    [k \in 1..RangeLen(start, stop, stride) |-> start + (k - 1) * stride]

-----------------------------------------------------------------------------
(* PointsInSquare *)

\* side / 2 metres, in half-metres.
upper_left_corner(s) ==
    LET left == Destination(Centre, 270, s)
    IN  Destination(left, 0, s)

\* The two distances exchanged: east by j, then south by i.
IterPoint_swapped(s, i, j) ==
    Destination(Destination(upper_left_corner(s), 90, Meters(j)), 180, Meters(i))

\* The point PointsInSquare.iter yields for the loop values i and j.
IterPoint(s, i, j) ==
    Destination(Destination(upper_left_corner(s), 90, Meters(i)), 180, Meters(j))

\* for i in range(0, side + 1, 30): whether the loop has a value left.
IterHasNext == gi < side + 1

\* The generator moves to its next (i, j).
IterAdvance ==
    /\ yielded' = Append(yielded, IterPoint(side, gi, gj))
    /\ IF gj + STRIDE < side + 1
         THEN /\ gj' = gj + STRIDE
              /\ gi' = gi
         ELSE /\ gj' = 0
              /\ gi' = gi + STRIDE

-----------------------------------------------------------------------------
(* PanoIdOf: an Optional is the empty sequence or a sequence of one value *)

Responses ==
    [status : {"OK"}, pano_id : PanoIds, location : CanonLocs]
        \cup [status : Statuses \ {"OK"}]

PanoIdOf_as_str(data) ==
    IF data.status = "ZERO_RESULTS" THEN <<>>
    ELSE IF data.status = "OK" THEN <<data.pano_id>>
    ELSE <<>>

PanoIdOf_pano_location(data) ==
    IF data.status = "ZERO_RESULTS" THEN <<>>
    ELSE IF data.status = "OK" THEN <<data.location>>
    ELSE <<>>

PanoIdOf_location(coords) == coords

-----------------------------------------------------------------------------
(* str comparison of Python: lexicographic on code points *)

CodePoints == ("ab" :> <<97, 98>>) @@ ("b" :> <<98>>)

RECURSIVE SeqLess(_, _)
SeqLess(a, b) ==
    IF b = <<>> THEN FALSE
    ELSE IF a = <<>> THEN TRUE
    ELSE IF Head(a) # Head(b) THEN Head(a) < Head(b)
    ELSE SeqLess(Tail(a), Tail(b))

StrLess(a, b) == SeqLess(CodePoints[a], CodePoints[b])

-----------------------------------------------------------------------------
(* Panos.as_list *)

Item(id, location) == [id |-> id, location |-> location]

\* ids[id_str] = location: a present key keeps its place in the dict.
DictSet(d, id, location) ==
    IF \E k \in 1..Len(d) : d[k].id = id
    THEN [k \in 1..Len(d) |-> IF d[k].id = id THEN Item(id, location) ELSE d[k]]
    ELSE Append(d, Item(id, location))

RECURSIVE InsertItem(_, _)
InsertItem(s, x) ==
    IF s = <<>> THEN <<x>>
    ELSE IF StrLess(x.id, Head(s).id) THEN <<x>> \o s
    ELSE <<Head(s)>> \o InsertItem(Tail(s), x)

\* The dict's items in insertion order, the sort left out.
sorted_items_unsorted(items) == items

\* sorted(ids.items(), key=operator.itemgetter(0)): a stable sort by identifier.
RECURSIVE sorted_items(_)
sorted_items(items) ==
    IF items = <<>> THEN <<>>
    ELSE InsertItem(sorted_items(SubSeq(items, 1, Len(items) - 1)), items[Len(items)])

-----------------------------------------------------------------------------
(* Pano.image_requests *)

ImgRequest(f, heading) == [fov |-> f, heading |-> heading]

\* assert 360 % 90 == 0
image_requests_assert == FULL_TURN % 90 = 0

image_requests(f) ==
    LET headings == Range(0, FULL_TURN, f)
    IN  [k \in 1..Len(headings) |-> ImgRequest(f, headings[k])]

-----------------------------------------------------------------------------
(* PanoFolderSimple and PanoFolderGlued *)

\* A downloaded picture: the request and the size of the image in its bytes.
Pic(rq) == [rq |-> rq, width |-> IMG_WIDTH, height |-> IMG_HEIGHT]

File(id, name, width, height) ==
    [folder |-> id, name |-> name, width |-> width, height |-> height]

\* PanoFolderSimple.save: one file f"{fov}-{heading}.jpg" per picture.
PanoFolderSimple_save(id, pics) ==
    {File(id, <<pics[k].rq>>, pics[k].width, pics[k].height) : k \in 1..Len(pics)}

RECURSIVE InsertPic(_, _)
InsertPic(s, x) ==
    IF s = <<>> THEN <<x>>
    ELSE IF x.rq.fov < Head(s).rq.fov THEN <<x>> \o s
    ELSE <<Head(s)>> \o InsertPic(Tail(s), x)

\* sorted(pics, key=heading), where heading returns rq.fov: a stable sort by fov.
RECURSIVE PanoFolderGlued_sorted(_)
PanoFolderGlued_sorted(pics) ==
    IF pics = <<>> THEN <<>>
    ELSE InsertPic(PanoFolderGlued_sorted(SubSeq(pics, 1, Len(pics) - 1)),
                   pics[Len(pics)])

\* Whether pics[-1] raises IndexError.
seams_handled_raises(dup, pics) == dup /\ pics = <<>>

\* The first picture duplicated in place of the last.
seams_handled_first(dup, pics) ==
    IF dup THEN <<pics[1]>> \o pics ELSE pics

seams_handled(dup, pics) ==
    IF dup THEN <<pics[Len(pics)]>> \o pics ELSE pics

RECURSIVE SumWidths(_)
SumWidths(pics) ==
    IF pics = <<>> THEN 0 ELSE Head(pics).width + SumWidths(Tail(pics))

RECURSIVE MaxHeight(_)
MaxHeight(pics) ==
    IF Len(pics) = 1 THEN Head(pics).height
    ELSE LET m == MaxHeight(Tail(pics))
         IN  IF Head(pics).height > m THEN Head(pics).height ELSE m

\* "--".join(f"{rq.fov}-{rq.heading}" for _, rq in pics) + ".jpg"
GluedName(pics) == [k \in 1..Len(pics) |-> pics[k].rq]

\* The exception PanoFolderGlued.save raises, "" when none.
PanoFolderGlued_raises(dup, pics) ==
    IF seams_handled_raises(dup, PanoFolderGlued_sorted(pics)) THEN "IndexError"
    ELSE IF seams_handled(dup, PanoFolderGlued_sorted(pics)) = <<>> THEN "ValueError"
    ELSE ""

PanoFolderGlued_save(id, dup, pics) ==
    LET all == seams_handled(dup, PanoFolderGlued_sorted(pics))
    IN  {File(id, GluedName(all), SumWidths(all), MaxHeight(all))}

-----------------------------------------------------------------------------
(* index.csv *)

Header == <<"pano_id", "latitude", "longitude">>

Row(pano) ==
    <<pano.id, ToString(pano.location.latitude), ToString(pano.location.longitude)>>

\* An index a previous run left behind.
OldIndex == <<Header, <<"old", "0", "0">>>>

\* The bytes of a row as csv.writer writes it: the cells, the commas, "\r\n".
RowBytes(row) == Len(row[1]) + Len(row[2]) + Len(row[3]) + 4

RECURSIVE Bytes(_)
Bytes(rows) == IF rows = <<>> THEN 0 ELSE RowBytes(Head(rows)) + Bytes(Tail(rows))

\* The open file: the rows on disk, in the binary layer and in the text layer.
FileObj(disk, w, b) == [disk |-> disk, wbuf |-> w, buf |-> b]

\* BufferedWriter.write(data): data that fits is buffered; otherwise the buffer
\* is written out first, and data larger than the buffer goes straight to disk.
BufferedWrite(f, data) ==
    IF Bytes(data) <= BUFFER_SIZE - Bytes(f.wbuf)
    THEN FileObj(f.disk, f.wbuf \o data, f.buf)
    ELSE IF Bytes(data) > BUFFER_SIZE
    THEN FileObj(f.disk \o f.wbuf \o data, <<>>, f.buf)
    ELSE FileObj(f.disk \o f.wbuf, data, f.buf)

\* The text layer hands its pending rows to the binary layer.
TextFlush(f) == BufferedWrite(FileObj(f.disk, f.wbuf, <<>>), f.buf)

\* TextIOWrapper.write(row): the pending rows are handed down first when the
\* row would take them past CHUNK_SIZE, the row is added to the pending rows,
\* and they are handed down when they have reached CHUNK_SIZE.
TextWrite(f, row) ==
    LET f1 == IF Bytes(f.buf) + RowBytes(row) > CHUNK_SIZE THEN TextFlush(f) ELSE f
        f2 == FileObj(f1.disk, f1.wbuf, Append(f1.buf, row))
    IN  IF Bytes(f2.buf) >= CHUNK_SIZE THEN TextFlush(f2) ELSE f2

\* writer.writerow(row) on the open index.csv.
WriteRow(row) ==
    LET f == TextWrite(FileObj(indexDisk, wbuf, buf), row)
    IN  /\ indexDisk' = f.disk
        /\ wbuf' = f.wbuf
        /\ buf' = f.buf

\* Leaving the with block closes the file, which writes both buffers through.
CloseIndex ==
    /\ indexDisk' = indexDisk \o wbuf \o buf
    /\ wbuf' = <<>>
    /\ buf' = <<>>

-----------------------------------------------------------------------------
(* Catalogue.add and Catalogue.download *)

\* The existence check left out: open(..., "w") truncates the index.
index_exists_check_skipped == FALSE

\* (self._dir / "index.csv").exists()
index_exists_check == indexExists

\* Every response appended, resp.ok not looked at.
download_append_unchecked(imgs, rq, ok) == Append(imgs, Pic(rq))

\* if resp.ok: images.append((resp.content, rq))
download_append(imgs, rq, ok) == IF ok THEN Append(imgs, Pic(rq)) ELSE imgs

\* download reporting success whatever it acquired.
download_result_always(imgs) == TRUE

\* return len(images) > 0
download_result(imgs) == Len(imgs) > 0

Init ==
    /\ pc = "start"
    /\ side \in Sides
    /\ step = 10
    /\ fov \in Fovs
    /\ folder \in {"Simple", "Glued"}
    /\ dup_on_seams \in BOOLEAN
    /\ (folder = "Simple" => dup_on_seams)
    /\ gi = 0
    /\ gj = 0
    /\ yielded = <<>>
    /\ lookups = <<>>
    /\ ids = <<>>
    /\ panos_list = <<>>
    /\ n = 0
    /\ rqs = <<>>
    /\ images = <<>>
    /\ fetched = <<>>
    /\ handed = <<>>
    /\ indexExists \in BOOLEAN
    /\ indexDisk = IF indexExists THEN OldIndex ELSE <<>>
    /\ buf = <<>>
    /\ wbuf = <<>>
    /\ dirs \in {{}, {<<>>}}
    /\ (indexExists => dirs = {<<>>})
    /\ files = {}
    /\ err = ""

\* Lines 213-219: the check of index.csv, mkdir, open, the header row.
AddStart ==
    /\ pc = "start"
    /\ IF index_exists_check
         THEN /\ pc' = "failed"
              /\ err' = "index.csv already exists"
              /\ UNCHANGED <<indexExists, indexDisk, buf, wbuf, dirs>>
         ELSE /\ dirs' = dirs \cup {<<>>}
              /\ indexExists' = TRUE
              /\ LET f == TextWrite(FileObj(<<>>, <<>>, <<>>), Header)
                 IN  /\ indexDisk' = f.disk
                     /\ wbuf' = f.wbuf
                     /\ buf' = f.buf
              /\ pc' = "as_list"
              /\ err' = err
    /\ UNCHANGED <<cfgVars, genVars, listVars, dlVars, files>>

\* Lines 119-128: one turn of the loop of Panos.as_list.
AsListStep ==
    /\ pc = "as_list"
    /\ IterHasNext
    /\ LET p == IterPoint(side, gi, gj)
       IN  \E data \in Responses :
             LET id_str == PanoIdOf_as_str(data)
                 location == PanoIdOf_location(p)
             IN  /\ lookups' = Append(lookups, [coords |-> p, data |-> data])
                 /\ ids' = IF id_str # <<>>
                             THEN DictSet(ids, id_str[1], location)
                             ELSE ids
    /\ IterAdvance
    /\ UNCHANGED <<pc, cfgVars, panos_list, dlVars, fsVars, buf, wbuf, err>>

\* Line 129: the generator is exhausted and as_list returns the sorted list.
AsListReturn ==
    /\ pc = "as_list"
    /\ ~IterHasNext
    /\ panos_list' = sorted_items(ids)
    /\ pc' = "loop"
    /\ UNCHANGED <<cfgVars, genVars, lookups, ids, dlVars, fsVars, buf, wbuf, err>>

\* Lines 221-223 and 233-235: the next panorama and its image requests.
DownloadStart ==
    /\ pc = "loop"
    /\ n < Len(panos_list)
    /\ n' = n + 1
    /\ images' = <<>>
    /\ IF image_requests_assert
         THEN /\ rqs' = image_requests(fov)
              /\ pc' = "download"
              /\ UNCHANGED <<err, indexDisk, buf, wbuf>>
         ELSE /\ rqs' = <<>>
              /\ pc' = "failed"
              /\ err' = "AssertionError"
              /\ CloseIndex
    /\ UNCHANGED <<cfgVars, genVars, listVars, fetched, handed, indexExists, dirs, files>>

\* Lines 236-241: one image request.
Fetch ==
    /\ pc = "download"
    /\ rqs # <<>>
    /\ \E ok \in BOOLEAN :
         /\ fetched' = Append(fetched, [pano |-> panos_list[n].id, rq |-> Head(rqs), ok |-> ok])
         /\ images' = download_append(images, Head(rqs), ok)
    /\ rqs' = Tail(rqs)
    /\ UNCHANGED <<pc, cfgVars, genVars, listVars, n, handed, fsVars, buf, wbuf, err>>

\* Lines 242-243 and 223-230: save, and the index row when an image was acquired.
Save ==
    /\ pc = "download"
    /\ rqs = <<>>
    /\ handed' = Append(handed, images)
    /\ LET pano == panos_list[n]
           raised == IF folder = "Glued"
                       THEN PanoFolderGlued_raises(dup_on_seams, images)
                       ELSE ""
           written == IF folder = "Glued"
                        THEN PanoFolderGlued_save(pano.id, dup_on_seams, images)
                        ELSE PanoFolderSimple_save(pano.id, images)
       IN  IF raised # ""
             THEN /\ pc' = "failed"
                  /\ err' = raised
                  /\ CloseIndex
                  /\ UNCHANGED <<dirs, files>>
             ELSE /\ files' = files \cup written
                  /\ dirs' = IF written # {} THEN dirs \cup {<<pano.id>>} ELSE dirs
                  /\ IF download_result(images)
                       THEN WriteRow(Row(pano))
                       ELSE UNCHANGED <<indexDisk, buf, wbuf>>
                  /\ pc' = "loop"
                  /\ err' = err
    /\ UNCHANGED <<cfgVars, genVars, listVars, n, rqs, images, fetched, indexExists>>

\* Line 216: the loop is over and the with block closes index.csv.
Finish ==
    /\ pc = "loop"
    /\ n = Len(panos_list)
    /\ CloseIndex
    /\ pc' = "done"
    /\ UNCHANGED <<cfgVars, genVars, listVars, dlVars, indexExists, dirs, files, err>>

Next ==
    \/ AddStart
    \/ AsListStep
    \/ AsListReturn
    \/ DownloadStart
    \/ Fetch
    \/ Save
    \/ Finish

Spec == Init /\ [][Next]_vars

-----------------------------------------------------------------------------
(* PointsInSquare.iter on its own: every side up to MaxSide, every step *)

IterInit ==
    /\ pc = "iter"
    /\ side \in 0..MaxSide
    /\ step \in Steps
    /\ fov = 120
    /\ folder = "Simple"
    /\ dup_on_seams = TRUE
    /\ gi = 0
    /\ gj = 0
    /\ yielded = <<>>
    /\ lookups = <<>>
    /\ ids = <<>>
    /\ panos_list = <<>>
    /\ n = 0
    /\ rqs = <<>>
    /\ images = <<>>
    /\ fetched = <<>>
    /\ handed = <<>>
    /\ indexExists = FALSE
    /\ indexDisk = <<>>
    /\ buf = <<>>
    /\ wbuf = <<>>
    /\ dirs = {}
    /\ files = {}
    /\ err = ""

\* Lines 66-71: the generator yields its next point.
IterStep ==
    /\ pc = "iter"
    /\ IterHasNext
    /\ IterAdvance
    /\ UNCHANGED <<pc, cfgVars, listVars, dlVars, fsVars, buf, wbuf, err>>

\* Line 66: the outer range is exhausted and the generator stops.
IterStop ==
    /\ pc = "iter"
    /\ ~IterHasNext
    /\ pc' = "iter_done"
    /\ UNCHANGED <<cfgVars, genVars, listVars, dlVars, fsVars, buf, wbuf, err>>

IterNext ==
    \/ IterStep
    \/ IterStop

SpecIter == IterInit /\ [][IterNext]_vars

-----------------------------------------------------------------------------
(* The claims *)

\* Panos.as_list has returned.
Listed == pc \in {"loop", "download", "done", "failed"}

\* The metadata requests that answered OK with the identifier id.
OkLookups(id) ==
    {k \in 1..Len(lookups) :
        lookups[k].data.status = "OK" /\ lookups[k].data.pano_id = id}

LastOkLookup(id) == CHOOSE k \in OkLookups(id) : \A m \in OkLookups(id) : m <= k

ResolvedIds == {id \in PanoIds : OkLookups(id) # {}}

RecordsOf(id) == {k \in 1..Len(panos_list) : panos_list[k].id = id}

\* The rows of the index, on disk or still buffered.
RowsWritten == indexDisk \o wbuf \o buf

HasRow(rows, id) == \E r \in 1..Len(rows) : rows[r][1] = id

\* C1: when two or more sampled coordinates resolve to one identifier, as_list
\* keeps exactly one record of it, and the record holds the capture location the
\* metadata lookup returned for the last visited of them.
C1_CanonicalLocationStored ==
    Listed =>
        \A id \in PanoIds :
            Cardinality(OkLookups(id)) >= 2 =>
                /\ Cardinality(RecordsOf(id)) = 1
                /\ \A k \in RecordsOf(id) :
                      panos_list[k].location = lookups[LastOkLookup(id)].data.location

\* C2: a panorama whose image requests all failed leaves no index row and no
\* directory, raises no error, and the run goes on, with Simple and with Glued.
C2_ZeroImagesTolerated ==
    \A k \in 1..Len(handed) :
        handed[k] = <<>> =>
            /\ ~HasRow(RowsWritten, panos_list[k].id)
            /\ <<panos_list[k].id>> \notin dirs
            /\ err = ""
            /\ pc # "failed"

\* C3: with a fov that does not divide 360 the run aborts before any work: no
\* image request is built, no metadata lookup and no image fetch is made, no
\* index file and no directory is created.
C3_InvalidFovAborts ==
    (FULL_TURN % fov # 0) =>
        /\ pc \in {"start", "failed"}
        /\ lookups = <<>>
        /\ rqs = <<>>
        /\ fetched = <<>>
        /\ files = {}
        /\ dirs \subseteq {<<>>}
        /\ buf = <<>>
        /\ wbuf = <<>>
        /\ (indexExists => indexDisk = OldIndex)

\* C4: add called where index.csv exists fails and changes nothing: the index,
\* the directories and the files stay as they are, and no metadata lookup and no
\* image fetch is made.
C4_ExistingIndexFailsFast ==
    [][(pc = "start" /\ indexExists) =>
          /\ pc' = "failed"
          /\ err' # ""
          /\ UNCHANGED <<indexExists, indexDisk, buf, wbuf, dirs, files, lookups,
                      fetched>>]_vars

C4_Witness ==
    /\ pc = "failed"
    /\ err = "index.csv already exists"
    /\ indexDisk = OldIndex
    /\ lookups = <<>>

\* The rows of the first k panoramas, one for each that acquired an image.
RECURSIVE ExpectedRows(_)
ExpectedRows(k) ==
    IF k = 0 THEN <<>>
    ELSE ExpectedRows(k - 1)
            \o (IF handed[k] # <<>> THEN <<Row(panos_list[k])>> ELSE <<>>)

\* C5: after a run that completes, the index is the header followed by one row
\* for each panorama of the list that acquired at least one image, in the order
\* of download, and no row for a panorama that acquired none.
C5_IndexOfCompletedRun ==
    pc = "done" =>
        /\ Len(handed) = Len(panos_list)
        /\ indexDisk = <<Header>> \o ExpectedRows(Len(panos_list))

C5_Witness ==
    /\ pc = "done"
    /\ Len(handed) = 2
    /\ handed[1] = <<>>
    /\ handed[2] # <<>>
    /\ Len(indexDisk) = 2

\* C6: at every point of the run, the index file on disk holds the row of every
\* panorama processed so far that acquired at least one image.
C6_RowsOnDiskPerPanorama ==
    \A k \in 1..Len(handed) :
        handed[k] # <<>> => HasRow(indexDisk, panos_list[k].id)

\* C7: the list as_list returns holds exactly the identifiers some point
\* resolved to, each once, in strictly ascending order of identifier, whatever
\* the order of the visits; a point that resolved to nothing adds no entry.
C7_SortedUniqueIds ==
    Listed =>
        /\ {panos_list[k].id : k \in 1..Len(panos_list)} = ResolvedIds
        /\ Len(panos_list) = Cardinality(ResolvedIds)
        /\ \A k \in 1..(Len(panos_list) - 1) :
              StrLess(panos_list[k].id, panos_list[k + 1].id)

C7_Witness ==
    /\ Listed
    /\ Len(ids) = 2
    /\ ids[1].id = "b"
    /\ ids[2].id = "ab"
    /\ \E k \in 1..Len(lookups) : lookups[k].data.status = "ZERO_RESULTS"
    /\ \E k \in 1..Len(lookups) : lookups[k].data.status = "OVER_QUERY_LIMIT"
    /\ panos_list[1].id = "ab"

\* The image requests issued for the panorama id, in the order of issue.
FetchesOf(id) == SelectSeq(fetched, LAMBDA f : f.pano = id)

\* C8: for a panorama that has been processed, every one of its image requests
\* was issued once and in order, failed or not, and the list handed to the
\* persistence strategy is exactly the successful ones in the order of request.
C8_SuccessfulImagesHanded ==
    \A k \in 1..Len(handed) :
        LET all == FetchesOf(panos_list[k].id)
            good == SelectSeq(all, LAMBDA f : f.ok)
        IN  /\ [m \in 1..Len(all) |-> all[m].rq] = image_requests(fov)
            /\ Len(handed[k]) = Len(good)
            /\ \A m \in 1..Len(good) : handed[k][m].rq = good[m].rq

C8_Witness ==
    \E k \in 1..Len(handed) :
        LET all == FetchesOf(panos_list[k].id)
        IN  /\ Len(all) = 3
            /\ all[1].ok
            /\ ~all[2].ok
            /\ all[3].ok
            /\ Len(handed[k]) = 2

CeilDiv(a, b) == (a + b - 1) \div b

\* C9: for every side >= 0 and every step, iter yields ceil(side/30 + 1)^2
\* points, and the points reach both edges of the square in each direction.
C9_SampleCount ==
    pc = "iter_done" =>
        LET c == CeilDiv(side + STRIDE, STRIDE)
            corner == upper_left_corner(side)
        IN  /\ Len(yielded) = c * c
            /\ \E k \in 1..Len(yielded) : yielded[k].longitude = corner.longitude
            /\ \E k \in 1..Len(yielded) :
                  yielded[k].longitude = corner.longitude + Meters(side)
            /\ \E k \in 1..Len(yielded) : yielded[k].latitude = corner.latitude
            /\ \E k \in 1..Len(yielded) :
                  yielded[k].latitude = corner.latitude - Meters(side)

\* The pictures a composite is made of, from the N pictures handed to save.
Composed(pics) ==
    IF dup_on_seams THEN <<pics[Len(pics)]>> \o pics ELSE pics

\* C10: PanoFolderGlued.save of N >= 1 pictures writes one file; with seam
\* duplication it is composed of the last picture followed by the N pictures
\* in the order acquired, N + 1 in all, and without of the N pictures; its
\* width is the sum of their widths and its name their fov-heading pairs in
\* that order.
C10_GluedComposite ==
    folder = "Glued" =>
        \A k \in 1..Len(handed) :
            handed[k] # <<>> =>
                LET parts == Composed(handed[k])
                    made == {f \in files : f.folder = panos_list[k].id}
                IN  /\ Cardinality(made) = 1
                    /\ Len(parts) = Len(handed[k]) + (IF dup_on_seams THEN 1 ELSE 0)
                    /\ \A f \in made :
                          /\ f.name = [m \in 1..Len(parts) |-> parts[m].rq]
                          /\ f.width = SumWidths(parts)

C10_Witness ==
    /\ folder = "Glued"
    /\ dup_on_seams
    /\ \E f \in files :
          /\ Len(f.name) = 4
          /\ f.name[1].heading = 240
          /\ f.name[2].heading = 0
          /\ f.width = 4 * IMG_WIDTH

\* The number of values each of the two loops of iter takes.
PerAxis == RangeLen(0, side + 1, STRIDE)

\* The outer value i and the inner value j of the k-th point yielded.
OuterOf(k) == STRIDE * ((k - 1) \div PerAxis)
InnerOf(k) == STRIDE * ((k - 1) % PerAxis)

\* The corner displaced east by e metres and south by s metres.
EastSouth(e, s) ==
    Point(upper_left_corner(side).latitude - Meters(s),
          upper_left_corner(side).longitude + Meters(e))

\* C11 as stated: i is the outer loop and j the inner, and the point for (i, j)
\* is the corner displaced east by j metres and south by i metres, so that the
\* points of one outer iteration run east along a row and the outer loop moves
\* south.
C11_RowMajorEastInner ==
    pc \in {"iter", "iter_done"} =>
        \A k \in 1..Len(yielded) :
            /\ yielded[k] = EastSouth(InnerOf(k), OuterOf(k))
            /\ (k > 1 /\ OuterOf(k) = OuterOf(k - 1)) =>
                  /\ yielded[k].latitude = yielded[k - 1].latitude
                  /\ yielded[k].longitude = yielded[k - 1].longitude + Meters(STRIDE)

\* C11 as amended: i is the outer loop and j the inner, and the point for (i, j)
\* is the corner displaced east by i metres and south by j metres, so that the
\* points of one outer iteration run south along a column and the outer loop
\* moves east.
C11_ColumnMajorSouthInner ==
    pc \in {"iter", "iter_done"} =>
        \A k \in 1..Len(yielded) :
            /\ yielded[k] = EastSouth(OuterOf(k), InnerOf(k))
            /\ (k > 1 /\ OuterOf(k) = OuterOf(k - 1)) =>
                  /\ yielded[k].longitude = yielded[k - 1].longitude
                  /\ yielded[k].latitude = yielded[k - 1].latitude - Meters(STRIDE)
            /\ (k > 1 /\ OuterOf(k) # OuterOf(k - 1)) =>
                  /\ yielded[k].longitude = yielded[k - 1].longitude + Meters(STRIDE)
                  /\ yielded[k].latitude = upper_left_corner(side).latitude

C11_Witness ==
    /\ pc = "iter_done"
    /\ side = 60
    /\ Len(yielded) = 9
    /\ yielded[2] = EastSouth(0, 30)
    /\ yielded[4] = EastSouth(30, 0)

====
